---- MODULE Spec2Model ----
(***************************************************************************)
(* A model of the selection-criteria generator:                            *)
(*   criteria_generator.py  class CriteriaGenerator                        *)
(*   app.py                 the Streamlit script (main, generate_criteria, *)
(*                          display_criteria)                              *)
(*                                                                         *)
(* Text is modelled at character level: a Python str is a sequence of      *)
(* one-character strings, so that find/rfind, slicing, endswith, float()   *)
(* and json.loads are computed as the code computes them.                  *)
(*                                                                         *)
(* A parsed JSON value is a tagged record:                                 *)
(*   [t |-> "num",  n |-> Int]          a JSON integer                     *)
(*   [t |-> "str",  s |-> chars]        a JSON string                      *)
(*   [t |-> "list", items |-> <<v..>>]  a JSON array  (Python list)        *)
(*   [t |-> "dict", pairs |-> <<<<k,v>>..>>]  a JSON object (Python dict,  *)
(*                                        insertion ordered, keys unique)  *)
(*   [t |-> "null"], [t |-> "bool", b |-> BOOLEAN]                         *)
(***************************************************************************)
EXTENDS Integers, Sequences, FiniteSets, TLC

\* ------------------------------------------------------------------------
\* Python str primitives
\* ------------------------------------------------------------------------

\* str.find(ch): 0-based index of the first occurrence of ch, -1 when absent
Find(s, ch) ==
  IF \E i \in 1..Len(s) : s[i] = ch
  THEN (CHOOSE i \in 1..Len(s) : s[i] = ch /\ \A j \in 1..(i-1) : s[j] # ch) - 1
  ELSE -1

\* str.rfind(ch): 0-based index of the last occurrence of ch, -1 when absent
RFind(s, ch) ==
  IF \E i \in 1..Len(s) : s[i] = ch
  THEN (CHOOSE i \in 1..Len(s) : s[i] = ch /\ \A j \in (i+1)..Len(s) : s[j] # ch) - 1
  ELSE -1

\* s[a:b] for 0 <= a and 0 <= b (Python clamps b to len(s); empty when b <= a)
Slice(s, a, b) ==
  LET hi == IF b > Len(s) THEN Len(s) ELSE b
  IN  IF hi <= a THEN <<>> ELSE SubSeq(s, a + 1, hi)

\* s[:-1]
DropLast(s) == IF Len(s) = 0 THEN <<>> ELSE SubSeq(s, 1, Len(s) - 1)

\* s.endswith(ch) for a one-character ch
EndsWith(s, ch) == Len(s) > 0 /\ s[Len(s)] = ch

\* the whitespace of str.strip, float and json
IsSpace(c) == c \in {" ", "\n", "\t", "\r"}

\* s.strip()
RECURSIVE LStrip(_)
LStrip(s) == IF Len(s) > 0 /\ IsSpace(s[1]) THEN LStrip(Tail(s)) ELSE s

RECURSIVE RStrip(_)
RStrip(s) == IF Len(s) > 0 /\ IsSpace(s[Len(s)]) THEN RStrip(DropLast(s)) ELSE s

Strip(s) == RStrip(LStrip(s))

IsDigit(c) == c \in {"0", "1", "2", "3", "4", "5", "6", "7", "8", "9"}

DigitVal(c) ==
  CASE c = "0" -> 0 [] c = "1" -> 1 [] c = "2" -> 2 [] c = "3" -> 3
    [] c = "4" -> 4 [] c = "5" -> 5 [] c = "6" -> 6 [] c = "7" -> 7
    [] c = "8" -> 8 [] c = "9" -> 9

\* ------------------------------------------------------------------------
\* json.loads, for the JSON grammar over the characters the model's texts
\* use: arrays, objects, strings without escapes, integers, null/true/false
\* and the blank as whitespace.  A result is [ok, val, pos]: pos is the
\* 1-based index of the first character after the value.
\* ------------------------------------------------------------------------

JNull == [t |-> "null"]
JNum(n) == [t |-> "num", n |-> n]
JStr(s) == [t |-> "str", s |-> s]
JList(items) == [t |-> "list", items |-> items]
JDict(pairs) == [t |-> "dict", pairs |-> pairs]
JBool(b) == [t |-> "bool", b |-> b]

ParseFail == [ok |-> FALSE, val |-> JNull, pos |-> 0]
ParseOk(v, p) == [ok |-> TRUE, val |-> v, pos |-> p]

RECURSIVE SkipWs(_, _)
SkipWs(s, i) == IF i <= Len(s) /\ IsSpace(s[i]) THEN SkipWs(s, i + 1) ELSE i

\* the literal lit starts at position i of s
Match(s, i, lit) ==
  /\ i + Len(lit) - 1 <= Len(s)
  /\ SubSeq(s, i, i + Len(lit) - 1) = lit

\* a string: s[i] is the opening quote; runs to the next quote; a control
\* character inside it is an error (the decoder is strict)
ParseString(s, i) ==
  IF \E j \in (i+1)..Len(s) : s[j] = "\""
  THEN LET j == CHOOSE j \in (i+1)..Len(s) :
                  s[j] = "\"" /\ \A k \in (i+1)..(j-1) : s[k] # "\""
       IN  IF \E k \in (i+1)..(j-1) : s[k] \in {"\n", "\t", "\r"}
           THEN ParseFail
           ELSE ParseOk(JStr(SubSeq(s, i + 1, j - 1)), j + 1)
  ELSE ParseFail

RECURSIVE DigitsEnd(_, _)
DigitsEnd(s, i) == IF i <= Len(s) /\ IsDigit(s[i]) THEN DigitsEnd(s, i + 1) ELSE i

RECURSIVE DigitsVal(_)
DigitsVal(ds) ==
  IF Len(ds) = 0 THEN 0 ELSE 10 * DigitsVal(DropLast(ds)) + DigitVal(ds[Len(ds)])

\* an integer: -?(0|[1-9][0-9]*), s[i] is '-' or a digit
ParseNumber(s, i) ==
  LET neg == s[i] = "-"
      b == IF neg THEN i + 1 ELSE i
  IN  IF b > Len(s) \/ ~IsDigit(s[b]) THEN ParseFail
      ELSE LET e == IF s[b] = "0" THEN b + 1 ELSE DigitsEnd(s, b)
               v == DigitsVal(SubSeq(s, b, e - 1))
           IN  ParseOk(JNum(IF neg THEN 0 - v ELSE v), e)

\* dict[k] = v: a repeated key keeps its place and takes the new value
RECURSIVE DictSet(_, _, _)
DictSet(pairs, k, v) ==
  IF Len(pairs) = 0 THEN << <<k, v>> >>
  ELSE IF pairs[1][1] = k THEN << <<k, v>> >> \o Tail(pairs)
  ELSE << pairs[1] >> \o DictSet(Tail(pairs), k, v)

RECURSIVE ParseValue(_, _)
RECURSIVE ParseElements(_, _, _)
RECURSIVE ParseMembers(_, _, _)

\* the value starting at position i (whitespace already skipped)
ParseValue(s, i) ==
  IF i > Len(s) THEN ParseFail
  ELSE IF s[i] = "\"" THEN ParseString(s, i)
  ELSE IF s[i] = "[" THEN
    LET j == SkipWs(s, i + 1)
    IN  IF j <= Len(s) /\ s[j] = "]" THEN ParseOk(JList(<<>>), j + 1)
        ELSE ParseElements(s, j, <<>>)
  ELSE IF s[i] = "{" THEN
    LET j == SkipWs(s, i + 1)
    IN  IF j <= Len(s) /\ s[j] = "}" THEN ParseOk(JDict(<<>>), j + 1)
        ELSE ParseMembers(s, j, <<>>)
  ELSE IF s[i] = "-" \/ IsDigit(s[i]) THEN ParseNumber(s, i)
  ELSE IF Match(s, i, <<"n", "u", "l", "l">>) THEN ParseOk(JNull, i + 4)
  ELSE IF Match(s, i, <<"t", "r", "u", "e">>) THEN ParseOk(JBool(TRUE), i + 4)
  ELSE IF Match(s, i, <<"f", "a", "l", "s", "e">>) THEN ParseOk(JBool(FALSE), i + 5)
  ELSE ParseFail

\* the elements of an array from position i on, up to its closing bracket
ParseElements(s, i, acc) ==
  LET r == ParseValue(s, i)
  IN  IF ~r.ok THEN ParseFail
      ELSE LET j == SkipWs(s, r.pos)
               items == Append(acc, r.val)
           IN  IF j > Len(s) THEN ParseFail
               ELSE IF s[j] = "," THEN ParseElements(s, SkipWs(s, j + 1), items)
               ELSE IF s[j] = "]" THEN ParseOk(JList(items), j + 1)
               ELSE ParseFail

\* the members of an object from position i on, up to its closing brace
ParseMembers(s, i, acc) ==
  IF i > Len(s) \/ s[i] # "\"" THEN ParseFail
  ELSE
    LET k == ParseString(s, i)
    IN  IF ~k.ok THEN ParseFail
        ELSE
          LET c == SkipWs(s, k.pos)
          IN  IF c > Len(s) \/ s[c] # ":" THEN ParseFail
              ELSE
                LET r == ParseValue(s, SkipWs(s, c + 1))
                IN  IF ~r.ok THEN ParseFail
                    ELSE
                      LET j == SkipWs(s, r.pos)
                          pairs == DictSet(acc, k.val.s, r.val)
                      IN  IF j > Len(s) THEN ParseFail
                          ELSE IF s[j] = "," THEN ParseMembers(s, SkipWs(s, j + 1), pairs)
                          ELSE IF s[j] = "}" THEN ParseOk(JDict(pairs), j + 1)
                          ELSE ParseFail

\* json.loads(s): one value, whitespace around it, nothing else;
\* ok = FALSE is json.JSONDecodeError
JsonLoads(s) ==
  LET r == ParseValue(s, SkipWs(s, 1))
  IN  IF r.ok /\ SkipWs(s, r.pos) > Len(s) THEN r ELSE ParseFail


\* ------------------------------------------------------------------------
\* Exceptions.  A call's outcome is [ok, val, err]; err.kind is the Python
\* exception class, err.msg the message as the chain of its f-string
\* templates (outermost first), err.index the 1-based criterion number the
\* message carries (0: none) and err.field the field it names (<<>>: none).
\* ------------------------------------------------------------------------

NoErr == [kind |-> "", msg |-> <<>>, index |-> 0, field |-> <<>>]
Return(v) == [ok |-> TRUE, val |-> v, err |-> NoErr]
Raise(kind, text, index, field) ==
  [ok |-> FALSE, val |-> JNull,
   err |-> [kind |-> kind, msg |-> <<text>>, index |-> index, field |-> field]]

\* raise kind(f"{prefix}: {str(e)}"): the class is replaced, the text kept
Reraise(kind, prefix, r) ==
  [ok |-> FALSE, val |-> JNull,
   err |-> [r.err EXCEPT !.kind = kind, !.msg = <<prefix>> \o r.err.msg]]

\* ------------------------------------------------------------------------
\* CriteriaGenerator._extract_json_from_response
\* ------------------------------------------------------------------------

\* a variant that ends the candidate at the first ']' instead of the last
_extract_json_from_response_FirstClose(response_text) ==
  LET start_idx == Find(response_text, "[")
      end_idx == Find(response_text, "]") + 1
  IN  IF start_idx = -1 \/ end_idx = 0
      THEN Reraise("ValueError", "Error parsing response",
                   Raise("ValueError", "No JSON array found in response", 0, <<>>))
      ELSE
        LET criteria == JsonLoads(Slice(response_text, start_idx, end_idx))
        IN  IF ~criteria.ok
            THEN Reraise("ValueError", "Invalid JSON format",
                         Raise("JSONDecodeError", "json.loads", 0, <<>>))
            ELSE Return(criteria.val)

_extract_json_from_response(response_text) ==
  LET start_idx == Find(response_text, "[")
      end_idx == RFind(response_text, "]") + 1
  IN  IF start_idx = -1 \/ end_idx = 0
      THEN Reraise("ValueError", "Error parsing response",
                   Raise("ValueError", "No JSON array found in response", 0, <<>>))
      ELSE
        LET json_str == Slice(response_text, start_idx, end_idx)
            criteria == JsonLoads(json_str)
        IN  IF ~criteria.ok
            THEN Reraise("ValueError", "Invalid JSON format",
                         Raise("JSONDecodeError", "json.loads", 0, <<>>))
            ELSE IF criteria.val.t # "list"
            THEN Reraise("ValueError", "Error parsing response",
                         Raise("ValueError", "Response is not a JSON array", 0, <<>>))
            ELSE Return(criteria.val)

\* ------------------------------------------------------------------------
\* float(str), for decimal notation with at most two fractional digits,
\* "nan", "inf" and "infinity", an optional sign and whitespace around.
\* A finite value is kept exactly, in hundredths; a literal with more
\* fractional digits has no value here (the CASE has no arm for it), and
\* exponents, underscores and capitals are outside the model's weights.
\* ------------------------------------------------------------------------

FloatFail == [ok |-> FALSE, kind |-> "", h |-> 0]
Finite(h) == [ok |-> TRUE, kind |-> "fin", h |-> h]
NaN == [ok |-> TRUE, kind |-> "nan", h |-> 0]
Inf(sign) == [ok |-> TRUE, kind |-> "inf", h |-> sign]

\* the unsigned body of a float literal
FloatBody(t) ==
  IF t = <<"n", "a", "n">> THEN NaN
  ELSE IF t = <<"i", "n", "f">> \/ t = <<"i", "n", "f", "i", "n", "i", "t", "y">>
  THEN Inf(1)
  ELSE
    LET e == DigitsEnd(t, 1)
        ip == SubSeq(t, 1, e - 1)
    IN  IF e > Len(t)
        THEN IF Len(ip) = 0 THEN FloatFail ELSE Finite(100 * DigitsVal(ip))
        ELSE IF t[e] # "." THEN FloatFail
        ELSE
          LET f == DigitsEnd(t, e + 1)
              fp == SubSeq(t, e + 1, f - 1)
          IN  IF f <= Len(t) \/ (Len(ip) = 0 /\ Len(fp) = 0)
              THEN FloatFail
              ELSE Finite(100 * DigitsVal(ip)
                          + (CASE Len(fp) = 0 -> 0
                               [] Len(fp) = 1 -> 10 * DigitsVal(fp)
                               [] Len(fp) = 2 -> DigitsVal(fp)))

PyFloat(s) ==
  LET t == Strip(s)
      signed == Len(t) > 0 /\ t[1] \in {"+", "-"}
      body == FloatBody(IF signed THEN Tail(t) ELSE t)
  IN  IF ~body.ok THEN FloatFail
      ELSE IF signed /\ t[1] = "-" /\ body.kind # "nan"
      THEN [body EXCEPT !.h = 0 - body.h]
      ELSE body

\* x < 0 and x > 100 on floats: both are false of nan
FloatLtZero(x) == x.kind # "nan" /\ x.h < 0
FloatGtHundred(x) ==
  \/ x.kind = "fin" /\ x.h > 10000
  \/ x.kind = "inf" /\ x.h > 0

\* ------------------------------------------------------------------------
\* CriteriaGenerator._validate_criteria
\* ------------------------------------------------------------------------

K_name == <<"n", "a", "m", "e">>
K_must_have == <<"m", "u", "s", "t", "_", "h", "a", "v", "e">>
K_weight == <<"w", "e", "i", "g", "h", "t">>
K_description == <<"d", "e", "s", "c", "r", "i", "p", "t", "i", "o", "n">>
K_priority == <<"p", "r", "i", "o", "r", "i", "t", "y">>
S_Yes == <<"Y", "e", "s">>
S_No == <<"N", "o">>

required_keys == <<K_name, K_must_have, K_weight, K_description>>

\* key in d
DictHas(d, key) == \E i \in 1..Len(d.pairs) : d.pairs[i][1] = key

\* d[key], for a key that d has
DictGet(d, key) ==
  d.pairs[CHOOSE i \in 1..Len(d.pairs) : d.pairs[i][1] = key][2]

\* the first required key the criterion lacks, <<>> when it has them all
FirstMissingKey(criterion) ==
  IF \E k \in 1..Len(required_keys) : ~DictHas(criterion, required_keys[k])
  THEN required_keys[CHOOSE k \in 1..Len(required_keys) :
                       /\ ~DictHas(criterion, required_keys[k])
                       /\ \A j \in 1..(k-1) : DictHas(criterion, required_keys[j])]
  ELSE <<>>

\* the try/except around float(): any ValueError raised inside it, the range
\* error included, leaves as "Invalid weight format"
CheckWeightValue(weight_str, n) ==
  LET weight_value == PyFloat(DropLast(weight_str))
  IN  IF ~weight_value.ok
      THEN Raise("ValueError", "Invalid weight format in criterion", n, K_weight)
      ELSE IF FloatLtZero(weight_value) \/ FloatGtHundred(weight_value)
      THEN Raise("ValueError", "Invalid weight format in criterion", n, K_weight)
      ELSE Return(JNull)

\* one pass of the loop body, for the criterion numbered n = i+1
CheckCriterion(criterion, n) ==
  IF criterion.t # "dict"
  THEN Raise("ValueError", "Criterion is not a dictionary", n, <<>>)
  ELSE IF FirstMissingKey(criterion) # <<>>
  THEN Raise("ValueError", "Missing key in criterion", n, FirstMissingKey(criterion))
  ELSE IF DictGet(criterion, K_must_have) \notin {JStr(S_Yes), JStr(S_No)}
  THEN Raise("ValueError", "Invalid must_have value in criterion", n, K_must_have)
  ELSE
    LET weight_str == DictGet(criterion, K_weight)
    IN  IF weight_str.t # "str"
        THEN Raise("AttributeError", "object has no attribute 'endswith'", 0, <<>>)
        ELSE IF ~EndsWith(weight_str.s, "%")
        THEN Raise("ValueError", "Weight must end with '%' in criterion", n, K_weight)
        ELSE CheckWeightValue(weight_str.s, n)

RECURSIVE ValidateFrom(_, _)
ValidateFrom(items, n) ==
  IF n > Len(items) THEN Return(JNull)
  ELSE LET r == CheckCriterion(items[n], n)
       IN  IF ~r.ok THEN r ELSE ValidateFrom(items, n + 1)

_validate_criteria(criteria) ==
  IF Len(criteria.items) = 0
  THEN Raise("ValueError", "No criteria generated", 0, <<>>)
  ELSE LET r == ValidateFrom(criteria.items, 1)
       IN  IF ~r.ok THEN r ELSE Return(criteria)

\* ------------------------------------------------------------------------
\* CriteriaGenerator.format_criteria_for_display
\* ------------------------------------------------------------------------

DigitChar(d) == <<"0", "1", "2", "3", "4", "5", "6", "7", "8", "9">>[d + 1]

\* str(n) for an integer n >= 0
RECURSIVE NatToStr(_)
NatToStr(n) ==
  IF n < 10 THEN <<DigitChar(n)>>
  ELSE NatToStr(n \div 10) \o <<DigitChar(n % 10)>>

\* str(v), as an f-string field renders a value
PyStr(v) ==
  CASE v.t = "str" -> v.s
    [] v.t = "num" -> IF v.n < 0 THEN <<"-">> \o NatToStr(0 - v.n) ELSE NatToStr(v.n)
    [] v.t = "null" -> <<"N", "o", "n", "e">>
    [] v.t = "bool" -> IF v.b THEN <<"T", "r", "u", "e">>
                       ELSE <<"F", "a", "l", "s", "e">>

\* total_weight += weight_value
FloatAdd(a, b) ==
  IF a.kind = "nan" \/ b.kind = "nan" THEN NaN
  ELSE IF a.kind = "inf" THEN a
  ELSE IF b.kind = "inf" THEN b
  ELSE Finite(a.h + b.h)

\* a variant that cuts the second decimal off instead of rounding
FormatFixed1_Truncates(x) ==
  IF x.kind = "nan" THEN <<"n", "a", "n">>
  ELSE IF x.kind = "inf" THEN <<"i", "n", "f">>
  ELSE NatToStr(x.h \div 100) \o <<".">> \o <<DigitChar((x.h \div 10) % 10)>>

\* f"{x:.1f}" for x >= 0: one fractional digit, rounded to nearest.  A tie
\* goes to the even digit when the float holds the value exactly (.25, .75);
\* any other tie follows the binary float, which lies just off the decimal
\* value, and has no arm here.
FormatFixed1(x) ==
  IF x.kind = "nan" THEN <<"n", "a", "n">>
  ELSE IF x.kind = "inf" THEN <<"i", "n", "f">>
  ELSE
    LET q == x.h \div 10
        r == x.h % 10
        tenths == CASE r < 5 -> q
                    [] r > 5 -> q + 1
                    [] r = 5 /\ x.h % 100 \in {25, 75} ->
                         IF q % 2 = 0 THEN q ELSE q + 1
    IN  NatToStr(tenths \div 10) \o <<".">> \o <<DigitChar(tenths % 10)>>

\* the block appended for the criterion numbered i
FormatEntry(criterion, i) ==
  <<"\n", "*", "*">> \o NatToStr(i) \o <<".", " ">>
    \o PyStr(DictGet(criterion, K_name))
    \o <<"*", "*", "\n", "-", " ", "M", "u", "s", "t", "-", "H", "a", "v", "e", ":", " ">>
    \o PyStr(DictGet(criterion, K_must_have))
    \o <<"\n", "-", " ", "W", "e", "i", "g", "h", "t", ":", " ">>
    \o PyStr(DictGet(criterion, K_weight))
    \o <<"\n", "-", " ", "D", "e", "s", "c", "r", "i", "p", "t", "i", "o", "n", ":", " ">>
    \o PyStr(DictGet(criterion, K_description))
    \o <<"\n">>

\* "\n".join(formatted) for the entries from i on
RECURSIVE JoinEntries(_, _)
JoinEntries(items, i) ==
  IF i > Len(items) THEN <<>>
  ELSE FormatEntry(items[i], i)
         \o (IF i < Len(items) THEN <<"\n">> ELSE <<>>)
         \o JoinEntries(items, i + 1)

\* total_weight after the loop (it starts as 0)
RECURSIVE TotalWeight(_, _)
TotalWeight(items, n) ==
  IF n = 0 THEN Finite(0)
  ELSE FloatAdd(TotalWeight(items, n - 1),
                PyFloat(DropLast(DictGet(items[n], K_weight).s)))

TotalLine(total_weight) ==
  <<"\n", "\n", "*", "*", "T", "o", "t", "a", "l", " ", "W", "e", "i", "g", "h", "t", ":", " ">>
    \o FormatFixed1(total_weight) \o <<"%", "*", "*">>

format_criteria_for_display(criteria) ==
  IF Len(criteria.items) = 0
  THEN <<"N", "o", " ", "c", "r", "i", "t", "e", "r", "i", "a", " ",
         "g", "e", "n", "e", "r", "a", "t", "e", "d">>
  ELSE JoinEntries(criteria.items, 1)
         \o TotalLine(TotalWeight(criteria.items, Len(criteria.items)))

\* ------------------------------------------------------------------------
\* CriteriaGenerator.__init__ and CriteriaGenerator.generate_criteria.
\* An optional str is JNull (None) or JStr(chars).  A call's outcome also
\* counts what it did at the library boundary: configured (genai.configure
\* calls) and calls (model.generate_content calls).
\* ------------------------------------------------------------------------

\* bool(v) for an optional str
Truthy(v) == v.t = "str" /\ Len(v.s) > 0

\* api_key or os.getenv('GEMINI_API_KEY')
ResolveKey(api_key, env) == IF Truthy(api_key) THEN api_key ELSE env

WithCounts(r, configured, calls) ==
  [ok |-> r.ok, val |-> r.val, err |-> r.err,
   configured |-> configured, calls |-> calls]

\* a variant that configures the library before it looks at the key
__init__ConfiguresFirst(api_key, env) ==
  IF ~Truthy(ResolveKey(api_key, env))
  THEN WithCounts(Reraise("Exception", "Failed to initialize Gemini model",
                          Raise("ValueError", "No API key provided", 0, <<>>)),
                  1, 0)
  ELSE WithCounts(Return(JNull), 1, 0)

__init__(api_key, env) ==
  LET key == ResolveKey(api_key, env)
  IN  IF ~Truthy(key)
      THEN WithCounts(Reraise("Exception", "Failed to initialize Gemini model",
                              Raise("ValueError", "No API key provided", 0, <<>>)),
                      0, 0)
      ELSE WithCounts(Return(JNull), 1, 0)

\* response = self.model.generate_content(prompt); response.text
\* remote is what the service does with this request: [ok, text, kind].
\* The prompt (a fixed template around jd_text and user_guidance) goes to
\* the service and nowhere else, and the service is free in its answer.
generate_content(remote) ==
  IF remote.ok THEN Return(JStr(remote.text))
  ELSE Raise(remote.kind, "generate_content", 0, <<>>)

\* validated_criteria = self._validate_criteria(criteria_json)
Validated(criteria_json) ==
  IF ~criteria_json.ok THEN criteria_json
  ELSE _validate_criteria(criteria_json.val)

\* criteria_json = self._extract_json_from_response(response.text)
Extracted(response) ==
  IF ~response.ok THEN response
  ELSE _extract_json_from_response(response.val.s)

\* the try block of generate_criteria: model call, extraction, validation;
\* the first exception ends it
Pipeline(remote) == Validated(Extracted(generate_content(remote)))

\* except Exception as e: raise Exception(f"Error generating criteria: ...")
\* r is what the try block came to, after one model call
TryExcept(r) ==
  IF ~r.ok
  THEN WithCounts(Reraise("Exception", "Error generating criteria", r), 0, 1)
  ELSE WithCounts(r, 0, 1)

\* a variant without the job_role check
generate_criteria_NoRoleCheck(job_role, jd_text, user_guidance, remote) ==
  IF Len(jd_text) = 0 \/ Len(Strip(jd_text)) = 0
  THEN WithCounts(Raise("ValueError", "Job description cannot be empty", 0, <<>>), 0, 0)
  ELSE TryExcept(Pipeline(remote))

generate_criteria(job_role, jd_text, user_guidance, remote) ==
  IF Len(jd_text) = 0 \/ Len(Strip(jd_text)) = 0
  THEN WithCounts(Raise("ValueError", "Job description cannot be empty", 0, <<>>), 0, 0)
  ELSE IF Len(job_role) = 0 \/ Len(Strip(job_role)) = 0
  THEN WithCounts(Raise("ValueError", "Job role cannot be empty", 0, <<>>), 0, 0)
  ELSE TryExcept(Pipeline(remote))

\* ------------------------------------------------------------------------
\* app.py: generate_criteria, display_criteria and main.
\* The session is [criteria_generated, generated_criteria].
\* ------------------------------------------------------------------------

\* what st.success / st.error shows: the level and the message's prefix
Shown(level, prefix) == [level |-> level, prefix |-> prefix]
NotShown == Shown("", "")

\* a variant that stores before it knows the generation succeeded
Handled_StoresOnFailure(sess, generator, criteria) ==
  IF ~generator.ok
  THEN [session |-> sess, shown |-> Shown("error", "Error"),
        result |-> generator, configured |-> 0, calls |-> 0]
  ELSE [session |-> [criteria_generated |-> TRUE,
                     generated_criteria |->
                       IF criteria.ok THEN criteria.val ELSE JList(<<>>)],
        shown |-> IF criteria.ok THEN Shown("success", "Successfully generated")
                  ELSE Shown("error", "Error"),
        result |-> criteria,
        configured |-> generator.configured, calls |-> criteria.calls]

\* the body of app.generate_criteria's try, given what the constructor
\* (generator) and, after it, the generation (criteria) came to
Handled(sess, generator, criteria) ==
  IF ~generator.ok
  THEN [session |-> sess, shown |-> Shown("error", "Error"),
        result |-> generator, configured |-> 0, calls |-> 0]
  ELSE IF criteria.ok
  THEN [session |-> [criteria_generated |-> TRUE,
                     generated_criteria |-> criteria.val],
        shown |-> Shown("success", "Successfully generated"),
        result |-> criteria,
        configured |-> generator.configured, calls |-> criteria.calls]
  ELSE [session |-> sess,
        shown |-> IF criteria.err.kind = "ValueError"
                  THEN Shown("error", "Validation Error")
                  ELSE Shown("error", "Error"),
        result |-> criteria,
        configured |-> generator.configured, calls |-> criteria.calls]

\* app.generate_criteria: [session, shown, result, configured, calls]
app_generate_criteria(sess, env, job_role, jd_text, user_guidance, remote) ==
  Handled(sess, __init__(JNull, env),
          generate_criteria(job_role, jd_text, user_guidance, remote))

\* the loop that counts the priorities: criterion['priority'] must exist
\* (KeyError) and, as a dict key, be hashable (TypeError)
RECURSIVE CountPriorities(_, _)
CountPriorities(items, n) ==
  IF n > Len(items) THEN Return(JNull)
  ELSE IF ~DictHas(items[n], K_priority)
  THEN Raise("KeyError", "priority", n, K_priority)
  ELSE IF DictGet(items[n], K_priority).t \in {"list", "dict"}
  THEN Raise("TypeError", "unhashable type", n, K_priority)
  ELSE CountPriorities(items, n + 1)

\* the export at the end of display_criteria: a generator is constructed
\* for the text download
Export(criteria, generator) ==
  IF ~generator.ok THEN generator
  ELSE WithCounts(Return(JStr(format_criteria_for_display(criteria))),
                  generator.configured, 0)

\* the part of display_criteria after the empty check
Display(criteria, counted, env) ==
  IF ~counted.ok THEN WithCounts(counted, 0, 0)
  ELSE Export(criteria, __init__(JNull, env))

\* display_criteria: the text export on success, or the exception that ends
\* the script run
display_criteria(sess, env) ==
  IF Len(sess.generated_criteria.items) = 0
  THEN WithCounts(Return(JStr(<<>>)), 0, 0)
  ELSE Display(sess.generated_criteria,
               CountPriorities(sess.generated_criteria.items, 1), env)

NoResult == WithCounts(Return(JNull), 0, 0)

\* the right-hand column of main, after the button's handler (handled)
Rendered(handled, env) ==
  LET display == IF handled.session.criteria_generated
                 THEN display_criteria(handled.session, env)
                 ELSE NoResult
  IN  [session |-> handled.session, shown |-> handled.shown,
       result |-> handled.result, display |-> display,
       configured |-> handled.configured + display.configured,
       calls |-> handled.calls]

Unhandled(sess, shown) ==
  [session |-> sess, shown |-> shown, result |-> NoResult,
   configured |-> 0, calls |-> 0]

\* the left-hand column of main: the button and its handler
Button(sess, env, clicked, job_role, jd_text, user_guidance, remote) ==
  IF ~clicked THEN Unhandled(sess, NotShown)
  ELSE IF Len(Strip(job_role)) = 0
  THEN Unhandled(sess, Shown("error", "Please enter a job role"))
  ELSE IF Len(Strip(jd_text)) = 0
  THEN Unhandled(sess, Shown("error", "Please enter a job description"))
  ELSE app_generate_criteria(sess, env, job_role, jd_text, user_guidance, remote)

\* one run of the script: [session, shown, result, display, configured, calls]
\* clicked: the Generate button was pressed in this run
main(sess, env, clicked, job_role, jd_text, user_guidance, remote) ==
  IF ~Truthy(env)
  THEN [session |-> sess, shown |-> Shown("error", "GEMINI_API_KEY not set"),
        result |-> NoResult, display |-> NoResult,
        configured |-> 0, calls |-> 0]
  ELSE Rendered(Button(sess, env, clicked, job_role, jd_text, user_guidance, remote),
                env)

\* ------------------------------------------------------------------------
\* Inputs: the values the operations are exercised on
\* ------------------------------------------------------------------------

\* json.dumps(v) with the default separators, for values without escapes
RECURSIVE Dumps(_)
RECURSIVE DumpsItems(_)
RECURSIVE DumpsPairs(_)
Dumps(v) ==
  CASE v.t = "str" -> <<"\"">> \o v.s \o <<"\"">>
    [] v.t = "num" -> PyStr(v)
    [] v.t = "null" -> <<"n", "u", "l", "l">>
    [] v.t = "bool" -> IF v.b THEN <<"t", "r", "u", "e">> ELSE <<"f", "a", "l", "s", "e">>
    [] v.t = "list" -> <<"[">> \o DumpsItems(v.items) \o <<"]">>
    [] v.t = "dict" -> <<"{">> \o DumpsPairs(v.pairs) \o <<"}">>
DumpsItems(items) ==
  IF Len(items) = 0 THEN <<>>
  ELSE Dumps(items[1]) \o (IF Len(items) > 1 THEN <<",", " ">> ELSE <<>>)
         \o DumpsItems(Tail(items))
DumpsPairs(pairs) ==
  IF Len(pairs) = 0 THEN <<>>
  ELSE <<"\"">> \o pairs[1][1] \o <<"\"", ":", " ">> \o Dumps(pairs[1][2])
         \o (IF Len(pairs) > 1 THEN <<",", " ">> ELSE <<>>)
         \o DumpsPairs(Tail(pairs))

\* a criterion record with the four fields of the prompt's output format
Crit(name, must_have, weight, description) ==
  JDict(<< <<K_name, name>>, <<K_must_have, must_have>>,
           <<K_weight, weight>>, <<K_description, description>> >>)

W(chars) == JStr(chars \o <<"%">>)

C_go == Crit(JStr(<<"G", "o">>), JStr(S_Yes), W(<<"5", "0">>),
             JStr(<<"5", " ", "y", "r", "s", " ", "G", "o">>))
C_sql == Crit(JStr(<<"S", "Q", "L">>), JStr(S_No), W(<<"3", "3", ".", "3", "3">>),
              JStr(<<"d", "b">>))
C_ops == Crit(JStr(<<"o", "p", "s">>), JStr(S_Yes), W(<<"1", "0", "0">>),
              JStr(<<"o", "n", "-", "c", "a", "l", "l">>))
C_noname == Crit(JStr(<<>>), JStr(S_No), W(<<"1", "0">>), JStr(<<"d">>))
C_nodesc == Crit(JStr(<<"a">>), JStr(S_No), W(<<"1", "0">>), JStr(<<>>))
C_nan == Crit(JStr(<<"a">>), JStr(S_Yes), W(<<"n", "a", "n">>), JStr(<<"d">>))
C_numweight == Crit(JStr(<<"a">>), JStr(S_Yes), JNum(50), JStr(<<"d">>))
C_maybe == Crit(JStr(<<"a">>), JStr(<<"M", "a", "y", "b", "e">>), W(<<"5">>), JStr(<<"d">>))
C_over == Crit(JStr(<<"a">>), JStr(S_Yes), W(<<"1", "0", "1">>), JStr(<<"d">>))
C_nopct == Crit(JStr(<<"a">>), JStr(S_Yes), JStr(<<"5", "0">>), JStr(<<"d">>))
C_missing ==
  JDict(<< <<K_name, JStr(<<"a">>)>>, <<K_must_have, JStr(S_Yes)>>,
           <<K_weight, W(<<"5">>)>> >>)
C_priority ==
  JDict(<< <<K_name, JStr(<<"G", "o">>)>>, <<K_must_have, JStr(S_Yes)>>,
           <<K_weight, W(<<"5", "0">>)>>, <<K_description, JStr(<<"d">>)>>,
           <<K_priority, JStr(<<"M", "u", "s", "t", "-", "H", "a", "v", "e">>)>> >>)

Prose == <<"H", "e", "r", "e", ":", " ">>

Answer(text) == [ok |-> TRUE, text |-> text, kind |-> ""]
Fault(kind) == [ok |-> FALSE, text |-> <<>>, kind |-> kind]

\* what the remote model may do with a request
Remotes ==
  << Answer(Prose \o Dumps(JList(<<C_go>>)) \o <<" ", "o", "k">>),
     Answer(Dumps(JList(<<C_go, C_sql>>))),
     Answer(Dumps(JList(<<C_priority>>))),
     Answer(Dumps(JList(<<C_ops, C_noname>>))),
     Answer(Dumps(JList(<<C_nodesc>>))),
     Answer(Dumps(JList(<<C_nan>>))),
     Answer(Dumps(JList(<<C_go, C_numweight>>))),
     Answer(Dumps(JList(<<C_go, C_missing>>))),
     Answer(Dumps(JList(<<C_over>>))),
     Answer(Dumps(JList(<<>>))),
     Answer(Prose),
     Answer(<<"[", "{", "\"", "n", "a", "m", "e", "\"", ":", "]">>),
     Answer(Dumps(C_go)),
     Fault("ServiceUnavailable") >>

Blank == <<" ">>
JobRoles == << <<>>, Blank, <<"d", "e", "v">> >>
JdTexts == << <<>>, Blank, <<"G", "o">> >>
Guidances == << <<>>, <<"s", "r">> >>
Keys == << JNull, JStr(<<>>), JStr(<<"k">>) >>

\* ------------------------------------------------------------------------
\* State
\* ------------------------------------------------------------------------

VARIABLES
  env_key,             \* os.getenv('GEMINI_API_KEY'): JNull or JStr
  criteria_generated,  \* st.session_state.criteria_generated
  generated_criteria,  \* st.session_state.generated_criteria
  generators,          \* CriteriaGenerator objects a library caller holds
  run,                 \* the last script run or library call: its inputs
                       \* and what came of it
  arg,                 \* the argument of a function exercised on its own
  res                  \* and its result, once it has been applied

vars == <<env_key, criteria_generated, generated_criteria, generators, run,
          arg, res>>

session == [criteria_generated |-> criteria_generated,
            generated_criteria |-> generated_criteria]

\* a new session, as main's first lines leave it; the environment is fixed
\* for the life of the process
Init ==
  /\ \E k \in 1..Len(Keys) : env_key = Keys[k]
  /\ criteria_generated = FALSE
  /\ generated_criteria = JList(<<>>)
  /\ generators = 0
  /\ run = [op |-> "none"]
  /\ arg = JNull
  /\ res = JNull

\* the session after a script run, and the record of the run
Ran(call, out) ==
  /\ criteria_generated' = out.session.criteria_generated
  /\ generated_criteria' = out.session.generated_criteria
  /\ run' = [call EXCEPT !.out = out]
  /\ UNCHANGED <<env_key, generators, arg, res>>

NoOut == [session |-> session]

\* a script run in which the Generate button was pressed
Click ==
  \E j \in 1..Len(JobRoles), d \in 1..Len(JdTexts),
     g \in 1..Len(Guidances), m \in 1..Len(Remotes) :
    Ran([op |-> "click", job_role |-> JobRoles[j], jd_text |-> JdTexts[d],
         user_guidance |-> Guidances[g], remote |-> Remotes[m], out |-> NoOut],
        main(session, env_key, TRUE, JobRoles[j], JdTexts[d],
             Guidances[g], Remotes[m]))

\* a script run caused by any other interaction
Rerun ==
  Ran([op |-> "rerun", out |-> NoOut],
      main(session, env_key, FALSE, <<>>, <<>>, <<>>, Fault("")))

Next == Click \/ Rerun

Spec == Init /\ [][Next]_vars

\* ------------------------------------------------------------------------
\* The library used directly: a caller constructs generators and calls
\* generate_criteria on one it holds.
\* ------------------------------------------------------------------------

MaxGenerators == 2

\* the caller's objects after a constructor call, and the record of the call
Constructed(call, out) ==
  /\ generators + out.configured <= MaxGenerators
  /\ generators' = generators + out.configured
  /\ run' = [call EXCEPT !.out = out]
  /\ UNCHANGED <<env_key, criteria_generated, generated_criteria, arg, res>>

\* CriteriaGenerator(api_key): a generator exists afterwards only if
\* __init__ returned
Construct ==
  \E a \in 1..Len(Keys) :
    Constructed([op |-> "construct", api_key |-> Keys[a], out |-> JNull],
                __init__(Keys[a], env_key))

\* generator.generate_criteria(job_role, jd_text, user_guidance)
Generate ==
  /\ generators > 0
  /\ \E j \in 1..Len(JobRoles), d \in 1..Len(JdTexts),
        g \in 1..Len(Guidances), m \in 1..Len(Remotes) :
       run' = [op |-> "generate", job_role |-> JobRoles[j], jd_text |-> JdTexts[d],
               user_guidance |-> Guidances[g], remote |-> Remotes[m],
               out |-> generate_criteria(JobRoles[j], JdTexts[d], Guidances[g],
                                         Remotes[m])]
  /\ UNCHANGED <<env_key, criteria_generated, generated_criteria, generators,
                 arg, res>>

NextApi == Construct \/ Generate

SpecApi == Init /\ [][NextApi]_vars

\* ------------------------------------------------------------------------
\* The pure functions on their own: Init draws the argument, the action
\* applies the function.
\* ------------------------------------------------------------------------

MaxTextLen == 5
MaxCriteria == 3

Pending == [pending |-> TRUE]

Idle ==
  /\ env_key = JNull
  /\ criteria_generated = FALSE
  /\ generated_criteria = JList(<<>>)
  /\ generators = 0
  /\ run = [op |-> "none"]
  /\ res = Pending

Applied(r) ==
  /\ res = Pending
  /\ res' = r
  /\ UNCHANGED <<env_key, criteria_generated, generated_criteria, generators,
                 run, arg>>

\* sequences over S of length at most n
SeqsUpTo(S, n) == UNION {[1..k -> S] : k \in 0..n}

\* response texts: brackets, a digit, a comma and a letter of prose
TextAlphabet == {"[", "]", "1", ",", "x"}

InitExtract == Idle /\ arg \in SeqsUpTo(TextAlphabet, MaxTextLen)
Extract == Applied(_extract_json_from_response(arg))
SpecExtract == InitExtract /\ [][Extract]_vars

\* array elements: conforming ones and one of each kind of violation
Elements ==
  << C_go, C_sql, C_nan, C_noname, JNum(7), C_missing, C_maybe, C_nopct,
     C_over, C_numweight,
     Crit(JStr(<<"a">>), JNum(1), JNum(5), JStr(<<"d">>)),
     Crit(JStr(<<"a">>), JStr(S_Yes), W(<<"x">>), JStr(<<"d">>)),
     Crit(JStr(<<"a">>), JStr(S_Yes), W(<<"-", "1">>), JStr(<<"d">>)),
     JDict(<< <<K_weight, JNum(5)>>, <<K_must_have, JStr(S_No)>> >>) >>

ArrayOf(elems, f) == JList([i \in 1..Len(f) |-> elems[f[i]]])

InitValidate ==
  /\ Idle
  /\ \E f \in SeqsUpTo(1..Len(Elements), MaxCriteria) : arg = ArrayOf(Elements, f)
Validate == Applied(_validate_criteria(arg))
SpecValidate == InitValidate /\ [][Validate]_vars

\* criteria that pass validation
ValidElements == << C_go, C_sql, C_ops, C_nan, C_priority, C_noname >>

InitFormat ==
  /\ Idle
  /\ \E f \in SeqsUpTo(1..Len(ValidElements), MaxCriteria) :
       arg = ArrayOf(ValidElements, f)
Format ==
  /\ _validate_criteria(arg).ok
  /\ Applied(JStr(format_criteria_for_display(arg)))
SpecFormat == InitFormat /\ [][Format]_vars

\* ------------------------------------------------------------------------
\* Vocabulary of the properties, stated without the operators under test
\* ------------------------------------------------------------------------

\* empty or whitespace-only
IsBlank(chars) == \A i \in 1..Len(chars) : IsSpace(chars[i])

\* no usable credential: neither the argument nor the environment gives one
NoCredential(api_key, env) ==
  /\ api_key = JNull \/ api_key = JStr(<<>>)
  /\ env = JNull \/ env = JStr(<<>>)

\* the value is a string of at least one character
NonEmptyStr(v) == v.t = "str" /\ Len(v.s) > 0

\* a weight as the schema wants it: a string with a percent marker at its
\* end whose numeric part is a number in [0, 100]
WeightConforms(v) ==
  /\ v.t = "str"
  /\ Len(v.s) > 0
  /\ v.s[Len(v.s)] = "%"
  /\ LET x == PyFloat(SubSeq(v.s, 1, Len(v.s) - 1))
     IN  x.ok /\ x.kind = "fin" /\ x.h >= 0 /\ x.h <= 10000

HasKey(e, key) == \E i \in 1..Len(e.pairs) : e.pairs[i][1] = key
ValueOf(e, key) == e.pairs[CHOOSE i \in 1..Len(e.pairs) : e.pairs[i][1] = key][2]

\* the fields of a record that break the schema of section 4.4
FieldsAtFault(e) ==
  {k \in {K_name, K_must_have, K_weight, K_description} : ~HasKey(e, k)}
    \cup (IF HasKey(e, K_must_have)
             /\ ValueOf(e, K_must_have) \notin {JStr(S_Yes), JStr(S_No)}
          THEN {K_must_have} ELSE {})
    \cup (IF HasKey(e, K_weight) /\ ~WeightConforms(ValueOf(e, K_weight))
          THEN {K_weight} ELSE {})

\* an element that satisfies the schema of section 4.4
ElementConforms(e) == e.t = "dict" /\ FieldsAtFault(e) = {}

\* the 1-based positions of the elements that break the schema
Offending(array) == {i \in 1..Len(array.items) : ~ElementConforms(array.items[i])}

FirstOffending(array) ==
  CHOOSE i \in Offending(array) : \A j \in Offending(array) : i <= j

\* occurrences of needle in hay, overlapping ones included
Count(needle, hay) ==
  Cardinality({i \in 1..(Len(hay) - Len(needle) + 1) :
                 SubSeq(hay, i, i + Len(needle) - 1) = needle})

\* ------------------------------------------------------------------------
\* C1  (SpecApi)
\* ------------------------------------------------------------------------

\* C1: when the inputs of a generate_criteria call pass the input check and
\* a later stage (model call, extraction, validation) fails, the caller gets
\* an error of the kind that stage raised, and no criteria list.
C1_StageErrorReachesCallerUnchanged ==
  (/\ run.op = "generate"
   /\ ~IsBlank(run.job_role)
   /\ ~IsBlank(run.jd_text)
   /\ ~Pipeline(run.remote).ok)
  => /\ ~run.out.ok
     /\ run.out.val = JNull
     /\ run.out.err.kind = Pipeline(run.remote).err.kind

\* ------------------------------------------------------------------------
\* C2  (SpecApi)
\* ------------------------------------------------------------------------

\* C2: a generate_criteria call whose job_role or jd_text is empty or
\* whitespace-only fails with a validation error (ValueError), whatever the
\* other arguments are, and makes no model call.
C2_BlankInputFailsBeforeModelCall ==
  (/\ run.op = "generate"
   /\ IsBlank(run.job_role) \/ IsBlank(run.jd_text))
  => /\ ~run.out.ok
     /\ run.out.err.kind = "ValueError"
     /\ run.out.calls = 0

\* a call with a whitespace-only role, a real description, guidance and a
\* model that would have answered
C2_Witness ==
  /\ run.op = "generate"
  /\ run.job_role = Blank
  /\ ~IsBlank(run.jd_text)
  /\ Len(run.user_guidance) > 0
  /\ run.remote.ok
  /\ ~run.out.ok

\* ------------------------------------------------------------------------
\* C3  (SpecApi)
\* ------------------------------------------------------------------------

\* C3: a list returned by generate_criteria is non-empty and each element
\* has a non-empty name, a non-empty description and a valid classification
\* (must_have Yes/No, weight a percentage in [0, 100]).
C3_ReturnedCriteriaWellFormed ==
  (run.op = "generate" /\ run.out.ok)
  => /\ run.out.val.t = "list"
     /\ Len(run.out.val.items) > 0
     /\ \A i \in 1..Len(run.out.val.items) :
          LET e == run.out.val.items[i]
          IN  /\ ElementConforms(e)
              /\ NonEmptyStr(ValueOf(e, K_name))
              /\ NonEmptyStr(ValueOf(e, K_description))

\* ------------------------------------------------------------------------
\* C9  (SpecApi)
\* ------------------------------------------------------------------------

\* C9: constructing a generator when no credential is resolvable fails with
\* the configuration error, without configuring the model library or calling
\* the model, and leaves no generator object; with no generator object no
\* generation happens.
C9_NoCredentialNoGenerator ==
  /\ [](run.op = "construct" /\ NoCredential(run.api_key, env_key)
          => /\ ~run.out.ok
             /\ run.out.err.kind = "Exception"
             /\ run.out.err.msg[1] = "Failed to initialize Gemini model"
             /\ run.out.configured = 0
             /\ run.out.calls = 0)
  /\ [][run'.op = "construct" /\ NoCredential(run'.api_key, env_key)
          => generators' = generators]_vars
  /\ [](generators = 0 => run.op # "generate")

\* a constructor call without a credential that has failed
C9_Witness ==
  /\ run.op = "construct"
  /\ run.api_key = JNull
  /\ env_key = JNull
  /\ ~run.out.ok
  /\ generators = 0

\* ------------------------------------------------------------------------
\* C4  (Spec)
\* ------------------------------------------------------------------------

\* the fields display_criteria and format_criteria_for_display read
FieldsRead == {K_priority, K_name, K_description, K_must_have, K_weight}

\* C4: the criteria held in the session carry every field the display and
\* export step reads, and a script run that renders them does not fail.
C4_StoredResultRenders ==
  /\ criteria_generated
       => \A i \in 1..Len(generated_criteria.items) :
            \A k \in FieldsRead : HasKey(generated_criteria.items[i], k)
  /\ (run.op \in {"click", "rerun"} /\ criteria_generated) => run.out.display.ok

\* ------------------------------------------------------------------------
\* C10  (Spec)
\* ------------------------------------------------------------------------

\* the script run recorded in r issued a generation that returned a list
Succeeded(r, env) ==
  /\ r.op = "click"
  /\ Truthy(env)
  /\ ~IsBlank(r.job_role)
  /\ ~IsBlank(r.jd_text)
  /\ Pipeline(r.remote).ok

\* C10: criteria_generated is set only while generated_criteria holds a
\* non-empty list that passes validation; a script run whose generation
\* succeeds stores exactly the list returned, as a whole; any other run (no
\* attempt, or a failed one) leaves both session fields as they were.
C10_SessionHoldsLastSuccess ==
  /\ [](criteria_generated
          => /\ Len(generated_criteria.items) > 0
             /\ _validate_criteria(generated_criteria).ok)
  /\ [](~criteria_generated => generated_criteria = JList(<<>>))
  /\ [][IF Succeeded(run', env_key)
        THEN /\ criteria_generated'
             /\ generated_criteria' = Pipeline(run'.remote).val
        ELSE /\ criteria_generated' = criteria_generated
             /\ generated_criteria' = generated_criteria]_vars

\* a failed attempt made while an earlier result is held: the result stays
C10_Witness ==
  /\ run.op = "click"
  /\ ~IsBlank(run.job_role)
  /\ ~IsBlank(run.jd_text)
  /\ run.out.shown.level = "error"
  /\ criteria_generated
  /\ Len(generated_criteria.items) = 2

\* ------------------------------------------------------------------------
\* C7  (SpecExtract)
\* ------------------------------------------------------------------------

Opens(text) == {i \in 1..Len(text) : text[i] = "["}
Closes(text) == {i \in 1..Len(text) : text[i] = "]"}
Least(S) == CHOOSE i \in S : \A j \in S : i <= j
Greatest(S) == CHOOSE i \in S : \A j \in S : i >= j

\* the text has a '[' and a ']' and the last ']' is not before the first '['
HasSpan(text) ==
  /\ Opens(text) # {}
  /\ Closes(text) # {}
  /\ Least(Opens(text)) <= Greatest(Closes(text))

\* from the first '[' to the last ']', both included
Candidate(text) == SubSeq(text, Least(Opens(text)), Greatest(Closes(text)))

FailsWithValueError(r) == ~r.ok /\ r.err.kind = "ValueError"

\* C7: the result is the parsed candidate (first '[' to last ']') when that
\* is a JSON array and a ParseError (ValueError) in every other case: no
\* '[', no ']', the last ']' before the first '[', invalid JSON, or a value
\* that is not an array.  What surrounds the candidate does not matter: the
\* candidate alone, and the candidate in other surroundings, give the same.
C7_ExtractsFirstOpenToLastClose ==
  res # Pending =>
    IF HasSpan(arg)
    THEN /\ IF JsonLoads(Candidate(arg)).ok /\ JsonLoads(Candidate(arg)).val.t = "list"
            THEN res = Return(JsonLoads(Candidate(arg)).val)
            ELSE FailsWithValueError(res)
         /\ res.ok = _extract_json_from_response(Candidate(arg)).ok
         /\ res.val = _extract_json_from_response(Candidate(arg)).val
         /\ res.val = _extract_json_from_response(
                        <<"]", "x">> \o Candidate(arg) \o <<",", "[">>).val
    ELSE FailsWithValueError(res)

\* an array extracted from between a prefix and a suffix
C7_Witness ==
  /\ res # Pending
  /\ res.ok
  /\ Len(res.val.items) = 1
  /\ arg[1] = "x"
  /\ arg[Len(arg)] = "x"

\* ------------------------------------------------------------------------
\* C5, C6  (SpecValidate)
\* ------------------------------------------------------------------------

\* C5: when some element of the array breaks the schema, validation fails
\* with a ValidationError (ValueError) whose message carries the 1-based
\* position of the first such element and, for a record, one of its fields
\* at fault.
C5_FirstViolationReported ==
  (res # Pending /\ Offending(arg) # {})
  => /\ FailsWithValueError(res)
     /\ res.err.index = FirstOffending(arg)
     /\ LET e == arg.items[FirstOffending(arg)]
        IN  IF e.t = "dict" THEN res.err.field \in FieldsAtFault(e)
            ELSE res.err.field = <<>>

\* C6: validation returns the array, unchanged, exactly when it is non-empty
\* and every element satisfies the schema; every other array is rejected
\* with a ValidationError (ValueError).
C6_AcceptsExactlyConformingArrays ==
  res # Pending =>
    IF Len(arg.items) > 0 /\ Offending(arg) = {}
    THEN res = Return(arg)
    ELSE FailsWithValueError(res)

\* ------------------------------------------------------------------------
\* C8  (SpecFormat)
\* ------------------------------------------------------------------------

\* the heading of entry i
Heading(i, e) ==
  <<"*", "*">> \o NatToStr(i) \o <<".", " ">> \o PyStr(ValueOf(e, K_name))
    \o <<"*", "*", "\n">>

\* the first position at or after from where needle occurs in hay (0: none)
IndexFrom(hay, needle, from) ==
  LET P == {i \in from..(Len(hay) - Len(needle) + 1) :
              SubSeq(hay, i, i + Len(needle) - 1) = needle}
  IN  IF P = {} THEN 0 ELSE Least(P)

\* the headings 1..n occur in text one after the other; the result is the
\* position after the last of them (0: they do not)
RECURSIVE HeadingsEnd(_, _, _)
HeadingsEnd(text, items, n) ==
  IF n = 0 THEN 1
  ELSE LET before == HeadingsEnd(text, items, n - 1)
           at == IF before = 0 THEN 0
                 ELSE IndexFrom(text, Heading(n, items[n]), before)
       IN  IF at = 0 THEN 0 ELSE at + Len(Heading(n, items[n]))

TotalLabel ==
  <<"*", "*", "T", "o", "t", "a", "l", " ", "W", "e", "i", "g", "h", "t", ":", " ">>

\* the figure between the last "**Total Weight: " and the closing "%**"
TotalFigure(text) ==
  LET P == {i \in 1..(Len(text) - Len(TotalLabel) + 1) :
              SubSeq(text, i, i + Len(TotalLabel) - 1) = TotalLabel}
  IN  SubSeq(text, Greatest(P) + Len(TotalLabel), Len(text) - 3)

EndsWithTotal(text) ==
  /\ Count(TotalLabel, text) > 0
  /\ Len(text) >= 3
  /\ SubSeq(text, Len(text) - 2, Len(text)) = <<"%", "*", "*">>

WeightOf(e) == PyFloat(SubSeq(ValueOf(e, K_weight).s, 1, Len(ValueOf(e, K_weight).s) - 1))

\* the sum of the weights, in hundredths of a percent
RECURSIVE SumOfWeights(_)
SumOfWeights(items) ==
  IF Len(items) = 0 THEN 0 ELSE WeightOf(items[1]).h + SumOfWeights(Tail(items))

SomeWeightNaN(items) == \E i \in 1..Len(items) : WeightOf(items[i]).kind = "nan"

\* C8 as stated: every name occurs exactly once in the text, the criteria
\* are numbered 1..N in order, and the total at the end equals the sum of
\* the weights.
C8_NameOnceAndExactTotal ==
  res # Pending =>
    /\ \A i \in 1..Len(arg.items) :
         Count(PyStr(ValueOf(arg.items[i], K_name)), res.s) = 1
    /\ HeadingsEnd(res.s, arg.items, Len(arg.items)) # 0
    /\ EndsWithTotal(res.s)
    /\ PyFloat(TotalFigure(res.s)).ok
    /\ PyFloat(TotalFigure(res.s)).kind = "fin"
    /\ PyFloat(TotalFigure(res.s)).h = SumOfWeights(arg.items)

\* C8, amended: the text holds one entry per criterion, in list order, the
\* i-th headed "**i. name**" (the name may occur elsewhere in the text too),
\* and ends with the total: the sum of the weights rounded to one decimal,
\* or nan when a weight is nan.
C8_EntriesInOrderAndRoundedTotal ==
  res # Pending =>
    /\ HeadingsEnd(res.s, arg.items, Len(arg.items)) # 0
    /\ IndexFrom(res.s, Heading(1, arg.items[1]), 1) = 2
    /\ EndsWithTotal(res.s)
    /\ IF SomeWeightNaN(arg.items)
       THEN TotalFigure(res.s) = <<"n", "a", "n">>
       ELSE LET shown == PyFloat(TotalFigure(res.s))
                sum == SumOfWeights(arg.items)
            IN  /\ shown.ok
                /\ shown.kind = "fin"
                /\ shown.h % 10 = 0
                /\ shown.h - sum <= 5
                /\ sum - shown.h <= 5

\* three criteria formatted, one name shared by two of them, with a sum
\* that one decimal cannot show
C8_Witness ==
  /\ res # Pending
  /\ Len(arg.items) = 3
  /\ ValueOf(arg.items[1], K_name) = ValueOf(arg.items[3], K_name)
  /\ ~SomeWeightNaN(arg.items)
  /\ SumOfWeights(arg.items) % 10 # 0

====
